---- MODULE Spec2Model ----
(***************************************************************************)
(* Model of rankings_lambda.py: the process-wide team registry Team.teams, *)
(* game ingestion (record_game / add_game), the two-phase strength of      *)
(* schedule solver, rank_score, the ranking sort and lambda_handler, which *)
(* a warm process runs once per invocation on the same class attribute.    *)
(*                                                                         *)
(* Real numbers (sos, scores) are exact rationals <<n, d>> in lowest terms *)
(* with d > 0; the source computes them in IEEE doubles.  <<0, 0>> stands  *)
(* for the ZeroDivisionError a division by 0 would raise.                  *)
(***************************************************************************)
EXTENDS Integers, Sequences, FiniteSets, TLC

VARIABLES
    teams,      \* Team.teams: name -> Team object (line 6)
    order,      \* insertion order of the keys of Team.teams (dict order)
    pc,         \* position of lambda_handler / get_rankings
    idx,        \* position of the running `for team in Team.teams.values()`
    pass,       \* completed iterations of `for _ in range(iterations)`
    unscored,   \* records of the current response skipped by the None test
    log,        \* history: every record_game call since the process started
    start,      \* history: Len(log) when the current invocation began
    prevSos,    \* history: name -> sos at the start of the current pass
    rankings,   \* the list get_rankings returned
    response,   \* statusCode of the last response, 0 while running
    fault       \* an exception escaped (KeyError / ZeroDivisionError)

vars == <<teams, order, pc, idx, pass, unscored, log, start, prevSos,
          rankings, response, fault>>

----------------------------------------------------------------------------
(* Bounds of the model *)

\* record_game calls per process
MaxGames == 2
\* unscored records per response
MaxUnscored == 1
\* the `iterations` argument of calculate_recursive_sos; get_rankings passes
\* 1000 (line 118), the model runs the same loop for a small count
Iterations == 2

\* Team names; NameSeq lists them in string order
Names == {"A", "B", "C"}
NameSeq == <<"A", "B", "C">>

\* (home_points, away_points) of the scored games: a wide home win, a narrow
\* home win, a tie and an away win
ScoreLines == {<<30, 10>>, <<20, 17>>, <<30, 30>>, <<10, 30>>}

\* event['year'] and os.environ['API_KEY']; "" is absent / falsy
Years == {"", "2024"}
Tokens == {"", "key"}

----------------------------------------------------------------------------
(* Exact rational arithmetic *)

Abs(x) == IF x < 0 THEN -x ELSE x

Min(x, y) == IF x < y THEN x ELSE y

RECURSIVE GCD(_, _)
GCD(a, b) == IF b = 0 THEN a ELSE GCD(b, a % b)

ZeroDivision == <<0, 0>>

\* n / d, in lowest terms; ZeroDivision when d = 0
Frac(n, d) ==
    IF d = 0 THEN ZeroDivision
    ELSE IF n = 0 THEN <<0, 1>>
    ELSE LET g == GCD(Abs(n), Abs(d))
             s == IF d < 0 THEN -1 ELSE 1
         IN  <<s * (n \div g), s * (d \div g)>>

RInt(n) == <<n, 1>>

RNeg(x) == <<-x[1], x[2]>>

RAdd(x, y) ==
    LET g == GCD(x[2], y[2])
        l == (x[2] \div g) * y[2]
    IN  Frac(x[1] * (l \div x[2]) + y[1] * (l \div y[2]), l)

RSub(x, y) == RAdd(x, RNeg(y))

RMul(x, y) ==
    IF x[1] = 0 \/ y[1] = 0 THEN <<0, 1>>
    ELSE LET g1 == GCD(Abs(x[1]), y[2])
             g2 == GCD(Abs(y[1]), x[2])
         IN  Frac((x[1] \div g1) * (y[1] \div g2), (x[2] \div g2) * (y[2] \div g1))

\* x / n for an integer n
RDivInt(x, n) ==
    IF n = 0 THEN ZeroDivision ELSE RMul(x, Frac(1, n))

\* a/b < c/d for b, d > 0, by comparing integer parts and then the
\* reciprocals of the fractional parts (no cross product)
RECURSIVE FracLess(_, _, _, _)
FracLess(a, b, c, d) ==
    LET q1 == a \div b
        q2 == c \div d
        r1 == a % b
        r2 == c % d
    IN  IF q1 # q2 THEN q1 < q2
        ELSE IF r2 = 0 THEN FALSE
        ELSE IF r1 = 0 THEN TRUE
        ELSE FracLess(d, r2, b, r1)

RLess(x, y) == FracLess(x[1], x[2], y[1], y[2])

RLeq(x, y) == x = y \/ RLess(x, y)

----------------------------------------------------------------------------
(* Team and the registry *)

\* Team.__init__: the fields of a new Team.  `counted` is a history field: for
\* each opponent, whether add_game counted the latest game as a win.
NewTeam(name, is_fbs) ==
    [name |-> name, is_fbs |-> is_fbs, games |-> <<>>, wins |-> 0,
     losses |-> 0, sos |-> RInt(0), counted |-> <<>>]

\* d[k] = v on a dict modelled as a function
Put(d, k, v) == [x \in DOMAIN d \cup {k} |-> IF x = k THEN v ELSE d[x]]

\* add_game that keeps the margin of the first game against an opponent
add_game_keep_first(self, opponent, is_win, point_spread) ==
    [self EXCEPT !.games = IF opponent \in DOMAIN @ THEN @
                           ELSE Put(@, opponent, point_spread),
                 !.wins = IF is_win THEN @ + 1 ELSE @,
                 !.losses = IF is_win THEN @ ELSE @ + 1,
                 !.counted = Put(@, opponent, is_win)]

add_game(self, opponent, is_win, point_spread) ==
    [self EXCEPT !.games = Put(@, opponent, point_spread),
                 !.wins = IF is_win THEN @ + 1 ELSE @,
                 !.losses = IF is_win THEN @ ELSE @ + 1,
                 !.counted = Put(@, opponent, is_win)]

\* Team.teams.get(name) or Team(name, is_fbs)
GetOrCreate(ts, name, is_fbs) ==
    IF name \in DOMAIN ts THEN ts ELSE Put(ts, name, NewTeam(name, is_fbs))

\* the keys of Team.teams after the same lookup
KeysAfter(ord, ts, name) ==
    IF name \in DOMAIN ts THEN ord ELSE Append(ord, name)

\* record_game that gives the away team the sign of the home team
record_game_same_sign(ts, home_name, home_fbs, away_name, away_fbs, home_points, away_points) ==
    LET t1 == GetOrCreate(ts, home_name, home_fbs)
        t2 == GetOrCreate(t1, away_name, away_fbs)
        home_win == home_points > away_points
        margin == Abs(home_points - away_points)
        t3 == [t2 EXCEPT ![home_name] =
                 add_game(@, away_name, home_win,
                          IF home_win THEN margin ELSE -margin)]
    IN  [t3 EXCEPT ![away_name] =
           add_game(@, home_name, ~home_win,
                    IF home_win THEN margin ELSE -margin)]

\* record_game that never registers a new away team
record_game_home_only(ts, home_name, home_fbs, away_name, away_fbs, home_points, away_points) ==
    LET t1 == GetOrCreate(ts, home_name, home_fbs)
        home_win == home_points > away_points
        margin == Abs(home_points - away_points)
        t3 == [t1 EXCEPT ![home_name] =
                 add_game(@, away_name, home_win,
                          IF home_win THEN margin ELSE -margin)]
    IN  IF away_name \notin DOMAIN t1 THEN t3
        ELSE [t3 EXCEPT ![away_name] =
                add_game(@, home_name, ~home_win,
                         IF ~home_win THEN margin ELSE -margin)]

record_game(ts, home_name, home_fbs, away_name, away_fbs, home_points, away_points) ==
    LET t1 == GetOrCreate(ts, home_name, home_fbs)
        t2 == GetOrCreate(t1, away_name, away_fbs)
        home_win == home_points > away_points
        margin == Abs(home_points - away_points)
        t3 == [t2 EXCEPT ![home_name] =
                 add_game(@, away_name, home_win,
                          IF home_win THEN margin ELSE -margin)]
    IN  [t3 EXCEPT ![away_name] =
           add_game(@, home_name, ~home_win,
                    IF ~home_win THEN margin ELSE -margin)]

record_game_keys(ord, ts, home_name, away_name) ==
    LET o1 == KeysAfter(ord, ts, home_name)
        t1 == GetOrCreate(ts, home_name, FALSE)
    IN  KeysAfter(o1, t1, away_name)

----------------------------------------------------------------------------
(* Strength of schedule *)

RECURSIVE SumInt(_, _)
SumInt(S, f) ==
    IF S = {} THEN 0
    ELSE LET x == CHOOSE y \in S : TRUE IN f[x] + SumInt(S \ {x}, f)

RECURSIVE SumRat(_, _)
SumRat(S, f) ==
    IF S = {} THEN RInt(0)
    ELSE LET x == CHOOSE y \in S : TRUE IN RAdd(f[x], SumRat(S \ {x}, f))

\* the opponents of team t that Team.teams.get finds
Found(ts, t) == DOMAIN ts[t].games \cap DOMAIN ts

\* the sos calculate_initial_sos assigns to team t
calculate_initial_sos(ts, t) ==
    IF DOMAIN ts[t].games = {} THEN RInt(0)
    ELSE LET total_opponent_wins == SumInt(Found(ts, t), [o \in Found(ts, t) |-> ts[o].wins])
             total_opponent_losses == SumInt(Found(ts, t), [o \in Found(ts, t) |-> ts[o].losses])
             total_games == total_opponent_wins + total_opponent_losses
         IN  IF total_games > 0 THEN Frac(total_opponent_wins, total_games)
             ELSE RInt(0)

\* calculate_recursive_sos that forgets to divide by count
calculate_recursive_sos_sum(ts, t) ==
    SumRat(Found(ts, t), [o \in Found(ts, t) |-> ts[o].sos])

\* calculate_recursive_sos that reads the values of the previous pass
calculate_recursive_sos_jacobi(ts, t) ==
    LET total_opponent_sos == SumRat(Found(ts, t), [o \in Found(ts, t) |-> prevSos[o]])
        count == Cardinality(Found(ts, t))
    IN  IF count > 0 THEN RDivInt(total_opponent_sos, count) ELSE RInt(0)

\* the sos one inner step of calculate_recursive_sos assigns to team t
calculate_recursive_sos(ts, t) ==
    LET total_opponent_sos == SumRat(Found(ts, t), [o \in Found(ts, t) |-> ts[o].sos])
        count == Cardinality(Found(ts, t))
    IN  IF count > 0 THEN RDivInt(total_opponent_sos, count) ELSE RInt(0)

----------------------------------------------------------------------------
(* Score calculator *)

calculate_penalty(margin) ==
    LET k == RInt(1)
        capped_margin == Min(Abs(margin), 28)
    IN  RAdd(RInt(1), RMul(k, RMul(Frac(capped_margin, 28), Frac(capped_margin, 28))))

\* calculate_bonus that caps the margin at 21
calculate_bonus_cap21(margin) ==
    LET k == Frac(2, 10)
        capped_margin == Min(margin, 21)
    IN  RAdd(RInt(1), RMul(k, RMul(Frac(capped_margin, 21), Frac(capped_margin, 21))))

calculate_bonus(margin) ==
    LET k == Frac(2, 10)
        capped_margin == Min(margin, 7)
    IN  RAdd(RInt(1), RMul(k, RMul(Frac(capped_margin, 21), Frac(capped_margin, 21))))

\* line 82: the home/away test of rank_score for team t and opponent o
is_home(ts, t, o) ==
    t \in DOMAIN ts[o].games /\ ts[o].games[t] < 0

\* the weight rank_score applies to the game of t against o
weight(ts, t, o) ==
    IF ts[t].games[o] > 0
    THEN (IF is_home(ts, t, o) THEN Frac(9, 10) ELSE Frac(11, 10))
    ELSE (IF is_home(ts, t, o) THEN Frac(11, 10) ELSE Frac(9, 10))

\* what one iteration of the loop of rank_score adds to score
game_score(ts, t, o) ==
    LET point_spread == ts[t].games[o]
        opponent_team == ts[o]
    IN  IF point_spread > 0
        THEN RMul(RMul(weight(ts, t, o),
                       RAdd(RInt(opponent_team.wins), opponent_team.sos)),
                  calculate_bonus(point_spread))
        ELSE RNeg(RMul(RMul(weight(ts, t, o),
                            RAdd(RInt(opponent_team.losses), opponent_team.sos)),
                       calculate_penalty(point_spread)))

\* Team.teams[opponent_name] of rank_score raises KeyError
KeyError(ts, t) == \E o \in DOMAIN ts[t].games : o \notin DOMAIN ts

rank_score(ts, t) ==
    LET opps == DOMAIN ts[t].games
        score == SumRat(opps, [o \in opps |-> game_score(ts, t, o)])
    IN  IF Cardinality(opps) > 0
        THEN RMul(Frac(12, Cardinality(opps)), score)
        ELSE RInt(0)

----------------------------------------------------------------------------
(* Ranking sorter *)

NameIndex(n) == CHOOSE i \in 1..Len(NameSeq) : NameSeq[i] = n

\* r1 < r2 for two rating lists [-score, -wins, losses, name]
RatingLess(r1, r2) ==
    \/ RLess(r1[1], r2[1])
    \/ /\ r1[1] = r2[1]
       /\ \/ r1[2] < r2[2]
          \/ /\ r1[2] = r2[2]
             /\ \/ r1[3] < r2[3]
                \/ /\ r1[3] = r2[3]
                   /\ NameIndex(r1[4]) < NameIndex(r2[4])

\* r put into the sorted list s, after the entries that are not greater
RECURSIVE Insert(_, _)
Insert(s, r) ==
    IF s = <<>> THEN <<r>>
    ELSE IF RatingLess(r, Head(s)) THEN <<r>> \o s
    ELSE <<Head(s)>> \o Insert(Tail(s), r)

\* ratings.sort()
RECURSIVE Sort(_)
Sort(s) == IF s = <<>> THEN <<>> ELSE Insert(Sort(Tail(s)), Head(s))

\* the ratings list without the is_fbs test
Ratings_unfiltered(ts, ord) ==
    [i \in 1..Len(ord) |->
       <<RNeg(rank_score(ts, ord[i])), -ts[ord[i]].wins, ts[ord[i]].losses, ord[i]>>]

\* the ratings list of get_rankings, in registry order
Ratings(ts, ord) ==
    LET fbs == SelectSeq(ord, LAMBDA n : ts[n].is_fbs)
    IN  [i \in 1..Len(fbs) |->
           <<RNeg(rank_score(ts, fbs[i])), -ts[fbs[i]].wins, ts[fbs[i]].losses, fbs[i]>>]

\* lines 120-136 of get_rankings
get_rankings(ts, ord) ==
    LET ratings == Sort(Ratings(ts, ord))
    IN  [i \in 1..Len(ratings) |->
           [rank |-> i, team |-> ratings[i][4], wins |-> -ratings[i][2],
            losses |-> ratings[i][3], score |-> RNeg(ratings[i][1])]]

----------------------------------------------------------------------------
(* The process *)

Init ==
    /\ teams = <<>>
    /\ order = <<>>
    /\ pc = "idle"
    /\ idx = 0
    /\ pass = 0
    /\ unscored = 0
    /\ log = <<>>
    /\ start = 0
    /\ prevSos = <<>>
    /\ rankings = <<>>
    /\ response = 0
    /\ fault = FALSE

Sos(ts) == [n \in DOMAIN ts |-> ts[n].sos]

\* an exception escapes lambda_handler: the invocation ends
Raise ==
    /\ fault' = TRUE
    /\ pc' = "idle"
    /\ idx' = 0
    /\ pass' = 0
    /\ prevSos' = <<>>
    /\ response' = 500
    /\ UNCHANGED <<teams, order, unscored, log, start, rankings>>

\* lambda_handler, lines 139-161: the year and the API key are tested, the
\* games are fetched
lambda_handler ==
    /\ pc = "idle"
    /\ \E year \in Years, token \in Tokens :
         /\ rankings' = <<>>
         /\ fault' = FALSE
         /\ start' = Len(log)
         /\ IF year = "" THEN response' = 400 /\ pc' = "idle"
            ELSE IF token = "" THEN response' = 500 /\ pc' = "idle"
            ELSE response' = 0 /\ pc' = "ingest"
    /\ UNCHANGED <<teams, order, idx, pass, unscored, log, prevSos>>

\* lines 164-173, a record with both scores; a game is played by two
\* different teams
RecordGame ==
    /\ pc = "ingest"
    /\ Len(log) < MaxGames
    /\ \E home \in Names, away \in Names,
          home_fbs \in BOOLEAN, away_fbs \in BOOLEAN, sc \in ScoreLines :
         /\ home # away
         /\ teams' = record_game(teams, home, home_fbs, away, away_fbs, sc[1], sc[2])
         /\ order' = record_game_keys(order, teams, home, away)
         /\ log' = Append(log, [home |-> home, away |-> away,
                                home_points |-> sc[1], away_points |-> sc[2]])
    /\ UNCHANGED <<pc, idx, pass, unscored, start, prevSos, rankings, response, fault>>

\* line 165, a record with home_points or away_points None
SkipUnscored ==
    /\ pc = "ingest"
    /\ unscored < MaxUnscored
    /\ unscored' = unscored + 1
    /\ UNCHANGED <<teams, order, pc, idx, pass, log, start, prevSos, rankings,
                   response, fault>>

\* the loop over games ends, get_rankings starts
EndIngest ==
    /\ pc = "ingest"
    /\ pc' = "initial_sos"
    /\ idx' = 1
    /\ unscored' = 0
    /\ UNCHANGED <<teams, order, pass, log, start, prevSos, rankings, response, fault>>

\* lines 113-115, one team
InitialSosStep ==
    /\ pc = "initial_sos"
    /\ idx <= Len(order)
    /\ LET t == order[idx]
           s == calculate_initial_sos(teams, t)
       IN  IF teams[t].is_fbs /\ s = ZeroDivision THEN Raise
           ELSE /\ teams' = IF teams[t].is_fbs THEN [teams EXCEPT ![t].sos = s]
                            ELSE teams
                /\ idx' = idx + 1
                /\ UNCHANGED <<order, pc, pass, unscored, log, start, prevSos,
                               rankings, response, fault>>

\* line 118: calculate_recursive_sos is called
InitialSosDone ==
    /\ pc = "initial_sos"
    /\ idx > Len(order)
    /\ pc' = "recursive_sos"
    /\ pass' = 0
    /\ idx' = 1
    /\ prevSos' = Sos(teams)
    /\ UNCHANGED <<teams, order, unscored, log, start, rankings, response, fault>>

\* lines 46-60, one team of one pass
RecursiveSosStep ==
    /\ pc = "recursive_sos"
    /\ pass < Iterations
    /\ idx <= Len(order)
    /\ LET t == order[idx]
           s == calculate_recursive_sos(teams, t)
       IN  IF teams[t].is_fbs /\ s = ZeroDivision THEN Raise
           ELSE /\ teams' = IF teams[t].is_fbs THEN [teams EXCEPT ![t].sos = s]
                            ELSE teams
                /\ idx' = idx + 1
                /\ UNCHANGED <<order, pc, pass, unscored, log, start, prevSos,
                               rankings, response, fault>>

\* line 45: the inner loop is exhausted, the next pass begins
NextPass ==
    /\ pc = "recursive_sos"
    /\ pass < Iterations
    /\ idx > Len(order)
    /\ pass' = pass + 1
    /\ idx' = 1
    /\ prevSos' = Sos(teams)
    /\ UNCHANGED <<teams, order, pc, unscored, log, start, rankings, response, fault>>

\* line 45: range(iterations) is exhausted
RecursiveSosDone ==
    /\ pc = "recursive_sos"
    /\ pass >= Iterations
    /\ pc' = "ratings"
    /\ idx' = 0
    /\ prevSos' = <<>>
    /\ UNCHANGED <<teams, order, pass, unscored, log, start, rankings, response, fault>>

\* lines 120-136 and 175-178: the scores, the sort, the response
BuildRankings ==
    /\ pc = "ratings"
    /\ IF \/ \E t \in DOMAIN teams : teams[t].is_fbs /\ KeyError(teams, t)
          \/ \E t \in DOMAIN teams :
               teams[t].is_fbs /\ rank_score(teams, t) = ZeroDivision
       THEN Raise
       ELSE /\ rankings' = get_rankings(teams, order)
            /\ response' = 200
            /\ pc' = "idle"
            /\ pass' = 0
            /\ UNCHANGED <<teams, order, idx, unscored, log, start, prevSos, fault>>

\* the process is replaced by a new one: the module is loaded again
ColdStart ==
    /\ pc = "idle"
    /\ teams' = <<>>
    /\ order' = <<>>
    /\ idx' = 0
    /\ pass' = 0
    /\ unscored' = 0
    /\ log' = <<>>
    /\ start' = 0
    /\ prevSos' = <<>>
    /\ rankings' = <<>>
    /\ response' = 0
    /\ fault' = FALSE
    /\ UNCHANGED pc

Next ==
    \/ lambda_handler
    \/ RecordGame
    \/ SkipUnscored
    \/ EndIngest
    \/ InitialSosStep
    \/ InitialSosDone
    \/ RecursiveSosStep
    \/ NextPass
    \/ RecursiveSosDone
    \/ BuildRankings
    \/ ColdStart

Spec == Init /\ [][Next]_vars

----------------------------------------------------------------------------
(* The recorded games, read from the history *)

\* the record_game calls team t took part in
GamesOf(t) == {i \in 1..Len(log) : log[i].home = t \/ log[i].away = t}

\* the record_game calls between t and o
Meetings(t, o) ==
    {i \in 1..Len(log) : {log[i].home, log[i].away} = {t, o}}

\* the most recent recorded game between t and o
LastMeeting(t, o) ==
    log[CHOOSE i \in Meetings(t, o) : \A j \in Meetings(t, o) : j <= i]

Opponents(t) == {o \in Names \ {t} : Meetings(t, o) # {}}

\* the points of t minus the points of its opponent
PointDiff(g, t) ==
    IF g.home = t THEN g.home_points - g.away_points
    ELSE g.away_points - g.home_points

\* the names in the order of their first appearance in a list of games
RECURSIVE Appearance(_)
Appearance(gs) ==
    IF gs = <<>> THEN <<>>
    ELSE LET before == Appearance(SubSeq(gs, 1, Len(gs) - 1))
             g == gs[Len(gs)]
             seen == {before[i] : i \in 1..Len(before)}
             o1 == IF g.home \in seen THEN before ELSE Append(before, g.home)
         IN  IF g.away \in seen \/ g.away = g.home THEN o1 ELSE Append(o1, g.away)

\* the registry that ingesting the games gs into an empty one produces
RECURSIVE Ingest(_)
Ingest(gs) ==
    IF gs = <<>> THEN <<>>
    ELSE LET g == gs[Len(gs)]
         IN  record_game(Ingest(SubSeq(gs, 1, Len(gs) - 1)), g.home, TRUE,
                         g.away, TRUE, g.home_points, g.away_points)

\* the teams, counters and margin maps of a registry
Records(ts) ==
    [n \in DOMAIN ts |->
       [wins |-> ts[n].wins, losses |-> ts[n].losses, games |-> ts[n].games]]

\* the games of the current invocation
CurrentGames == SubSeq(log, start + 1, Len(log))

Completed == pc = "idle" /\ response = 200

----------------------------------------------------------------------------
(* Claims *)

\* C1: every invocation works on a fresh registry: the registry get_rankings
\* reads holds exactly the teams, counters and margin maps that ingesting the
\* games of this invocation alone into an empty registry produces.
C1_FreshRegistry ==
    (pc = "initial_sos" /\ idx = 1) =>
        Records(teams) = Records(Ingest(CurrentGames))

\* C2: each team's margin map has one entry per opponent it met, holding the
\* signed margin of the most recently recorded game against that opponent,
\* and wins + losses is the number of recorded games the team took part in.
C2_MapOverwritesCountersAccumulate ==
    /\ DOMAIN teams = {t \in Names : GamesOf(t) # {}}
    /\ \A t \in DOMAIN teams :
         /\ teams[t].wins + teams[t].losses = Cardinality(GamesOf(t))
         /\ DOMAIN teams[t].games = Opponents(t)
         /\ \A o \in DOMAIN teams[t].games :
              teams[t].games[o] = PointDiff(LastMeeting(t, o), t)

\* a pairing was recorded twice with different margins
C2_Witness ==
    /\ Len(log) = 2
    /\ {log[1].home, log[1].away} = {log[2].home, log[2].away}
    /\ PointDiff(log[1], log[1].home) # PointDiff(log[2], log[1].home)
    /\ teams[log[1].home].wins + teams[log[1].home].losses = 2

\* C3: every team of the registry, top-tier or not, has 0 <= sos <= 1 at
\* every point of the solver.
C3_SosInUnitInterval ==
    \A t \in DOMAIN teams :
        /\ teams[t].sos[2] > 0
        /\ RLeq(RInt(0), teams[t].sos)
        /\ RLeq(teams[t].sos, RInt(1))

\* in a pass after the first, a top-tier team has an sos strictly between 0
\* and 1 and a team outside the top tier is registered
C3_Witness ==
    /\ pc = "recursive_sos"
    /\ pass >= 1
    /\ idx > 1
    /\ \E t \in DOMAIN teams :
         teams[t].is_fbs /\ RLess(RInt(0), teams[t].sos) /\ RLess(teams[t].sos, RInt(1))
    /\ \E t \in DOMAIN teams : ~teams[t].is_fbs

\* the order of two ranking records: score descending, then wins descending,
\* then losses ascending, then name ascending
RankedBefore(r1, r2) ==
    \/ RLess(r2.score, r1.score)
    \/ /\ r1.score = r2.score
       /\ r1.wins > r2.wins
    \/ /\ r1.score = r2.score
       /\ r1.wins = r2.wins
       /\ r1.losses < r2.losses
    \/ /\ r1.score = r2.score
       /\ r1.wins = r2.wins
       /\ r1.losses = r2.losses
       /\ NameIndex(r1.team) < NameIndex(r2.team)

\* C4: get_rankings returns one record per top-tier team and none for the
\* others, with ranks 1..n, consecutive records strictly ordered by score
\* descending, wins descending, losses ascending, name ascending.
C4_RankingTotalOrder ==
    Completed =>
        LET n == Len(rankings)
            fbs == {t \in DOMAIN teams : teams[t].is_fbs}
        IN  /\ n = Cardinality(fbs)
            /\ {rankings[i].team : i \in 1..n} = fbs
            /\ \A i \in 1..n :
                 /\ rankings[i].rank = i
                 /\ rankings[i].wins = teams[rankings[i].team].wins
                 /\ rankings[i].losses = teams[rankings[i].team].losses
            /\ \A i \in 1..(n - 1) : RankedBefore(rankings[i], rankings[i + 1])

\* two ranked teams tie on score, wins and losses, and a team outside the top
\* tier is registered
C4_Witness ==
    /\ Completed
    /\ \E i \in 1..(Len(rankings) - 1) :
         /\ rankings[i].score = rankings[i + 1].score
         /\ rankings[i].wins = rankings[i + 1].wins
         /\ rankings[i].losses = rankings[i + 1].losses
    /\ \E t \in DOMAIN teams : ~teams[t].is_fbs

\* C5: get_rankings completes without a fault: no registry lookup hits a
\* missing name, and no division of Phase A, Phase B or rank_score has a zero
\* divisor without taking the fallback.
C5_NoFault ==
    /\ ~fault
    /\ \A t \in DOMAIN teams :
         /\ DOMAIN teams[t].games \subseteq DOMAIN teams
         /\ calculate_initial_sos(teams, t) # ZeroDivision
         /\ calculate_recursive_sos(teams, t) # ZeroDivision
         /\ rank_score(teams, t) # ZeroDivision
    /\ (pc = "idle" /\ response = 500) => rankings = <<>>

\* an invocation that ingested games, a tie among them, returned rankings
C5_Witness ==
    /\ Completed
    /\ Len(CurrentGames) >= 2
    /\ \E i \in 1..Len(log) : log[i].home_points = log[i].away_points
    /\ Len(rankings) >= 2

\* C6: a stored margin is positive exactly when the most recent game against
\* that opponent was counted as a win, and negative exactly when it was
\* counted as a loss, ties included.
C6_MarginSignMatchesCounter ==
    \A t \in DOMAIN teams : \A o \in DOMAIN teams[t].games :
        /\ teams[t].games[o] > 0 <=> teams[t].counted[o]
        /\ teams[t].games[o] < 0 <=> ~teams[t].counted[o]

Scenario ==
    <<[home |-> "A", away |-> "B", home_points |-> 30, away_points |-> 10],
      [home |-> "B", away |-> "C", home_points |-> 20, away_points |-> 17]>>

\* the scenario was ingested into an empty registry, all three teams top-tier
ScenarioRun ==
    /\ log = Scenario
    /\ start = 0
    /\ \A n \in DOMAIN teams : teams[n].is_fbs

Half == Frac(1, 2)

Square(x) == RMul(x, x)

\* 12 * 0.9 * (1 + 1/2) * (1 + 0.2 * (7/21)^2)
ScenarioScoreA ==
    RMul(RInt(12),
         RMul(RMul(Frac(9, 10), RAdd(RInt(1), Half)),
              RAdd(RInt(1), RMul(Frac(2, 10), Square(Frac(7, 21))))))

\* (12/2) * (0.9 * (0 + 1/2) * (1 + 0.2 * (3/21)^2)
\*           - 0.9 * (0 + 1/2) * (1 + (20/28)^2))
ScenarioScoreB ==
    RMul(Frac(12, 2),
         RSub(RMul(RMul(Frac(9, 10), Half),
                   RAdd(RInt(1), RMul(Frac(2, 10), Square(Frac(3, 21))))),
              RMul(RMul(Frac(9, 10), Half),
                   RAdd(RInt(1), Square(Frac(20, 28))))))

\* -12 * 0.9 * (1 + 1/2) * (1 + (3/28)^2)
ScenarioScoreC ==
    RNeg(RMul(RInt(12),
              RMul(RMul(Frac(9, 10), RAdd(RInt(1), Half)),
                   RAdd(RInt(1), Square(Frac(3, 28))))))

WasHome(t, o) == LastMeeting(t, o).home = t

\* C8: in rank_score, is_home is true exactly when the team was the home side
\* of the most recently recorded game against the opponent, so the weight is
\* 0.9 for a home win, 1.1 for an away win, 1.1 for a home loss and 0.9 for
\* an away loss.
C8_IsHomeIsHomeSide ==
    pc = "ratings" =>
        \A t \in DOMAIN teams : \A o \in DOMAIN teams[t].games :
            teams[t].is_fbs =>
                /\ is_home(teams, t, o) <=> WasHome(t, o)
                /\ weight(teams, t, o) =
                     IF (teams[t].games[o] > 0) = WasHome(t, o)
                     THEN Frac(9, 10) ELSE Frac(11, 10)

Position(n) == CHOOSE i \in 1..Len(order) : order[i] = n

\* what opponent o contributes when the team at position idx is updated
Contribution(o) ==
    IF ~teams[o].is_fbs THEN RInt(0)
    ELSE IF Position(o) < idx THEN teams[o].sos
    ELSE prevSos[o]

\* the mean of the contributions of all recorded opponents of t
MeanOfOpponents(t) ==
    LET opps == Opponents(t)
    IN  RDivInt(SumRat(opps, [o \in opps |-> Contribution(o)]), Cardinality(opps))

\* C9: Phase B runs exactly the configured number of passes with no early
\* exit, visits the teams in insertion order and updates in place: a top-tier
\* team's new sos is the mean over all its recorded opponents of their
\* current sos (an opponent updated earlier in the pass gives its new value,
\* a later one its value of the previous pass, one outside the top tier gives
\* 0 and counts in the divisor); sos outside the top tier is never written.
C9_PhaseB ==
    [][ /\ order = Appearance(log)
        /\ (pc = "recursive_sos" /\ pc' # "recursive_sos") =>
               (pass = Iterations /\ pc' = "ratings")
        /\ (pc = "recursive_sos" /\ pass' # pass) =>
               (pass' = pass + 1 /\ idx = Len(order) + 1 /\ idx' = 1)
        /\ (pc = "recursive_sos" /\ idx' # idx /\ pass' = pass /\ pc' = pc) =>
               /\ idx' = idx + 1
               /\ idx <= Len(order)
               /\ teams[order[idx]].is_fbs =>
                      teams'[order[idx]].sos = MeanOfOpponents(order[idx])
               /\ \A n \in DOMAIN teams \ {order[idx]} :
                      teams'[n].sos = teams[n].sos
        /\ \A n \in DOMAIN teams \cap DOMAIN teams' :
               ~teams[n].is_fbs => teams'[n].sos = RInt(0)
      ]_vars

\* a top-tier team is about to be updated after the first pass; one of its
\* opponents was updated earlier in this pass to a new value, one is outside
\* the top tier
C9_Witness ==
    /\ pc = "recursive_sos"
    /\ pass >= 1
    /\ idx \in 2..Len(order)
    /\ teams[order[idx]].is_fbs
    /\ \E o \in DOMAIN teams[order[idx]].games :
         teams[o].is_fbs /\ Position(o) < idx /\ teams[o].sos # prevSos[o]
    /\ \E o \in DOMAIN teams[order[idx]].games : ~teams[o].is_fbs

\* C10: the margin maps are antisymmetric: for teams A # B, B is a key of
\* A's map iff A is a key of B's, and then A.games[B] = -B.games[A].
C10_Antisymmetric ==
    \A a \in DOMAIN teams : \A b \in DOMAIN teams \ {a} :
        /\ b \in DOMAIN teams[a].games <=> a \in DOMAIN teams[b].games
        /\ b \in DOMAIN teams[a].games => teams[a].games[b] = -teams[b].games[a]

\* a pairing was recorded twice, the sides swapped, the later margin not 0
C10_Witness ==
    /\ Len(log) = 2
    /\ log[1].home = log[2].away
    /\ log[1].away = log[2].home
    /\ teams[log[2].home].games[log[2].away] # 0
    /\ teams[log[2].home].games[log[2].away] # teams[log[1].home].games[log[1].away]

====
